---------------------------- MODULE Spec2Model ----------------------------
(***************************************************************************)
(* svgToDataURI: the favicon encoder (processInput) and the history store  *)
(* (saveHistory / getHistory / renderHistory and the button handlers) of   *)
(* the two pages of the repository, src/src/main.ts ("main") and           *)
(* src/unnamed/part_001 ("part_001").                                      *)
(*                                                                         *)
(* Text is a sequence of characters, each a one-character string; the one  *)
(* character outside ASCII that the model uses is written "U+00E9".        *)
(* The text kept in localStorage is a sequence of JSON tokens.             *)
(***************************************************************************)
EXTENDS Naturals, Integers, Sequences, FiniteSets, TLC

VARIABLES
    variant,     \* which page runs: "main" (main.ts) or "part_001"
    svgInput,    \* els.svgInput.value
    outputCode,  \* els.outputCode.value
    previewSrc,  \* els.previewImg.src
    cleanSvg,    \* processInput's local cleanSvg, as last computed
    storage,     \* localStorage under STORAGE_KEY: [present, text]
    now,         \* the clock read by Date.now()
    listening,   \* setupListeners() has run
    op,          \* the handler that ran last
    arg,         \* the text that handler was given
    rec,         \* what saveHistory did in that handler ("none": not called)
    raised,      \* the error that handler threw ("none": it returned)
    exported     \* the Blob content that handler built (export)

vars == <<variant, svgInput, outputCode, previewSrc, cleanSvg, storage, now,
          listening, op, arg, rec, raised, exported>>

-----------------------------------------------------------------------------
(* Characters and strings                                                  *)

Chars(str) == [i \in 1..Len(str) |-> SubSeq(str, i, i)]

Range(s) == {s[i] : i \in DOMAIN s}

Min(a, b) == IF a <= b THEN a ELSE b

\* The grave accent, which a string of the module cannot hold.
Grave == "U+0060"

\* The printable ASCII characters, code 32 first.
Ascii ==
    Chars(" !\"#$%&'()*+,-./0123456789:;<=>?@ABCDEFGHIJKLMNOPQRSTUVWXYZ[\\]^_")
    \o <<Grave>>
    \o Chars("abcdefghijklmnopqrstuvwxyz{|}~")

EAcute == "U+00E9"

\* Any character the model has no name for.
OtherChar == "U+FFFD"

CodeTable ==
    [c \in Range(Ascii) \cup {"\t", "\n", "\r", EAcute} |->
        CASE c = "\t" -> 9
          [] c = "\n" -> 10
          [] c = "\r" -> 13
          [] c = EAcute -> 233
          [] OTHER -> 31 + CHOOSE i \in DOMAIN Ascii : Ascii[i] = c]

CharCode(c) == CodeTable[c]

CharOfTable ==
    [n \in {CodeTable[c] : c \in DOMAIN CodeTable} |->
        CHOOSE c \in DOMAIN CodeTable : CodeTable[c] = n]

CharOf(n) == IF n \in DOMAIN CharOfTable THEN CharOfTable[n] ELSE OtherChar

\* What String.prototype.trim strips and what \s matches, of the characters
\* of the model.
WhiteSpace == {" ", "\t", "\n", "\r"}

\* The recursions over a text split it in halves, so that their depth is
\* the logarithm of its length.

\* The least index in lo..hi at which s holds no white space; 0 without one.
RECURSIVE FirstBlack(_, _, _)
FirstBlack(s, lo, hi) ==
    IF lo > hi THEN 0
    ELSE IF lo = hi THEN (IF s[lo] \in WhiteSpace THEN 0 ELSE lo)
    ELSE LET l == FirstBlack(s, lo, (lo + hi) \div 2) IN
         IF l # 0 THEN l ELSE FirstBlack(s, ((lo + hi) \div 2) + 1, hi)

\* The greatest such index; 0 without one.
RECURSIVE LastBlack(_, _, _)
LastBlack(s, lo, hi) ==
    IF lo > hi THEN 0
    ELSE IF lo = hi THEN (IF s[lo] \in WhiteSpace THEN 0 ELSE lo)
    ELSE LET r == LastBlack(s, ((lo + hi) \div 2) + 1, hi) IN
         IF r # 0 THEN r ELSE LastBlack(s, lo, (lo + hi) \div 2)

\* String.prototype.trim
Trim(s) ==
    IF FirstBlack(s, 1, Len(s)) = 0 THEN <<>>
    ELSE SubSeq(s, FirstBlack(s, 1, Len(s)), LastBlack(s, 1, Len(s)))

\* p occurs in s at index i
OccursAt(s, p, i) ==
    /\ i >= 1
    /\ i + Len(p) - 1 <= Len(s)
    /\ \A k \in 1..Len(p) : s[i + k - 1] = p[k]

StartsWith(s, p) == OccursAt(s, p, 1)

\* The least index in lo..hi at which p occurs in s; 0 without one.
RECURSIVE FirstOccurrence(_, _, _, _)
FirstOccurrence(s, p, lo, hi) ==
    IF lo > hi THEN 0
    ELSE IF lo = hi THEN (IF OccursAt(s, p, lo) THEN lo ELSE 0)
    ELSE LET l == FirstOccurrence(s, p, lo, (lo + hi) \div 2) IN
         IF l # 0 THEN l ELSE FirstOccurrence(s, p, ((lo + hi) \div 2) + 1, hi)

\* The first index >= from at which p occurs in s; 0 when there is none.
IndexOf(s, p, from) == FirstOccurrence(s, p, from, Len(s) - Len(p) + 1)

\* String.prototype.replace(p, r) with a string pattern: the first occurrence.
ReplaceFirst(s, p, r) ==
    LET i == IndexOf(s, p, 1) IN
    IF i = 0 THEN s
    ELSE SubSeq(s, 1, i - 1) \o r \o SubSeq(s, i + Len(p), Len(s))

\* String.prototype.replace(/c/g, r) for a one-character pattern.
RECURSIVE ReplaceAllIn(_, _, _, _, _)
ReplaceAllIn(s, c, r, lo, hi) ==
    IF lo > hi THEN <<>>
    ELSE IF lo = hi THEN (IF s[lo] = c THEN r ELSE <<s[lo]>>)
    ELSE ReplaceAllIn(s, c, r, lo, (lo + hi) \div 2)
         \o ReplaceAllIn(s, c, r, ((lo + hi) \div 2) + 1, hi)

ReplaceAll(s, c, r) == ReplaceAllIn(s, c, r, 1, Len(s))

-----------------------------------------------------------------------------
(* encodeURIComponent and decodeURIComponent                               *)

HexDigits == Chars("0123456789ABCDEF")

Hex2(b) == <<HexDigits[(b \div 16) + 1], HexDigits[(b % 16) + 1]>>

HexTable ==
    [c \in Range(Chars("0123456789ABCDEFabcdef")) |->
        LET u == Chars("0123456789ABCDEF")
            l == Chars("0123456789abcdef")
        IN  IF c \in Range(u)
            THEN (CHOOSE i \in DOMAIN u : u[i] = c) - 1
            ELSE (CHOOSE i \in DOMAIN l : l[i] = c) - 1]

IsHex(c) == c \in DOMAIN HexTable

\* The UTF-8 bytes of a code point below 65536.
Utf8(n) ==
    IF n < 128 THEN <<n>>
    ELSE IF n < 2048 THEN <<192 + (n \div 64), 128 + (n % 64)>>
    ELSE <<224 + (n \div 4096), 128 + ((n \div 64) % 64), 128 + (n % 64)>>

\* uriUnescaped: letters, digits and - _ . ! ~ * ' ( )
Unreserved ==
    Range(Chars("ABCDEFGHIJKLMNOPQRSTUVWXYZabcdefghijklmnopqrstuvwxyz0123456789-_.!~*'()"))

RECURSIVE PercentBytes(_)
PercentBytes(bs) ==
    IF bs = <<>> THEN <<>>
    ELSE <<"%">> \o Hex2(Head(bs)) \o PercentBytes(Tail(bs))

EncodeChar(c) ==
    IF c \in Unreserved THEN <<c>> ELSE PercentBytes(Utf8(CharCode(c)))

RECURSIVE EncodeIn(_, _, _)
EncodeIn(s, lo, hi) ==
    IF lo > hi THEN <<>>
    ELSE IF lo = hi THEN EncodeChar(s[lo])
    ELSE EncodeIn(s, lo, (lo + hi) \div 2)
         \o EncodeIn(s, ((lo + hi) \div 2) + 1, hi)

\* encodeURIComponent (the modelled characters hold no lone surrogate, the
\* one input it throws on)
encodeURIComponent(s) == EncodeIn(s, 1, Len(s))

\* s holds an escape %XX at index i
HasByte(s, i) ==
    /\ i >= 1
    /\ i + 2 <= Len(s)
    /\ s[i] = "%"
    /\ IsHex(s[i + 1])
    /\ IsHex(s[i + 2])

ByteAt(s, i) == 16 * HexTable[s[i + 1]] + HexTable[s[i + 2]]

\* The number of continuation bytes a UTF-8 lead byte announces; -1 for a
\* byte that cannot lead.
Continuations(b) ==
    IF b < 128 THEN 0
    ELSE IF b >= 194 /\ b <= 223 THEN 1
    ELSE IF b >= 224 /\ b <= 239 THEN 2
    ELSE IF b >= 240 /\ b <= 244 THEN 3
    ELSE -1

\* The least and the greatest byte that may follow the lead byte b: the
\* overlong forms, the surrogates and the code points past 10FFFF are no
\* UTF-8.
SecondMin(b) == IF b = 224 THEN 160 ELSE IF b = 240 THEN 144 ELSE 128

SecondMax(b) == IF b = 237 THEN 159 ELSE IF b = 244 THEN 143 ELSE 191

\* The k continuation bytes after the lead at index i are all there.
ContinuationsOk(s, i, k) ==
    /\ \A j \in 1..k :
           /\ HasByte(s, i + 3 * j)
           /\ ByteAt(s, i + 3 * j) >= 128
           /\ ByteAt(s, i + 3 * j) <= 191
    /\ k >= 1 => /\ ByteAt(s, i + 3) >= SecondMin(ByteAt(s, i))
                 /\ ByteAt(s, i + 3) <= SecondMax(ByteAt(s, i))

RECURSIVE CodePoint(_, _, _, _)
CodePoint(s, i, k, acc) ==
    IF k = 0 THEN acc
    ELSE CodePoint(s, i + 3, k - 1, acc * 64 + (ByteAt(s, i + 3) - 128))

LeadBits(b, k) ==
    IF k = 0 THEN b ELSE IF k = 1 THEN b - 192 ELSE IF k = 2 THEN b - 224 ELSE b - 240

IsContinuation(b) == b >= 128 /\ b <= 191

\* The continuation byte at index i belongs to the sequence a lead byte one,
\* two or three escapes before it opens.
Claimed(s, i) ==
    \E j \in 1..3 :
        /\ HasByte(s, i - 3 * j)
        /\ Continuations(ByteAt(s, i - 3 * j)) >= j

\* The % at index i is read without a URIError: two hex digits follow, and
\* the byte opens a whole UTF-8 sequence or continues one.
EscapeOk(s, i) ==
    /\ HasByte(s, i)
    /\ IF IsContinuation(ByteAt(s, i))
       THEN Claimed(s, i)
       ELSE /\ Continuations(ByteAt(s, i)) >= 0
            /\ ContinuationsOk(s, i, Continuations(ByteAt(s, i)))

\* What decoding yields for index i: the character itself, the character an
\* escape sequence opening there stands for, nothing for the rest of an
\* escape sequence.
DecodeAt(s, i) ==
    IF s[i] = "%"
    THEN IF IsContinuation(ByteAt(s, i)) THEN <<>>
         ELSE <<CharOf(CodePoint(s, i, Continuations(ByteAt(s, i)),
                                 LeadBits(ByteAt(s, i),
                                          Continuations(ByteAt(s, i)))))>>
    ELSE IF (i > 1 /\ s[i - 1] = "%") \/ (i > 2 /\ s[i - 2] = "%") THEN <<>>
    ELSE <<s[i]>>

RECURSIVE DecodeIn(_, _, _)
DecodeIn(s, lo, hi) ==
    IF lo > hi THEN <<>>
    ELSE IF lo = hi THEN DecodeAt(s, lo)
    ELSE DecodeIn(s, lo, (lo + hi) \div 2)
         \o DecodeIn(s, ((lo + hi) \div 2) + 1, hi)

\* A faulty decoder: the text is handed on as it stands.
NoDecode(s) == [ok |-> TRUE, str |-> s]

\* decodeURIComponent: [ok, str]; ok is FALSE where the function throws
\* URIError (a % without two hex digits after it, bytes that are not UTF-8).
\* Every % of a text that decodes opens an escape, a % being no hex digit.
decodeURIComponent(s) ==
    IF \A i \in 1..Len(s) : s[i] = "%" => EscapeOk(s, i)
    THEN [ok |-> TRUE, str |-> DecodeIn(s, 1, Len(s))]
    ELSE [ok |-> FALSE, str |-> <<>>]

-----------------------------------------------------------------------------
(* processInput                                                            *)

LinkPrefix == Chars("<link")

DataPrefix == Chars("data:image/svg+xml,")

HrefOpen == Chars("href=\"")

TagHead == Chars("<link rel=\"icon\" type=\"image/svg+xml\" href=\"")

TagTail == Chars("\" />")

\* The pattern /href="([^"]*)"/ matches at index i: href=" is there and a
\* double quote closes the group.
HrefAt(s, i) ==
    /\ OccursAt(s, HrefOpen, i)
    /\ IndexOf(s, <<"\"">>, i + Len(HrefOpen)) # 0

\* The least index in lo..hi at which the pattern matches; 0 without one.
RECURSIVE FirstHref(_, _, _)
FirstHref(s, lo, hi) ==
    IF lo > hi THEN 0
    ELSE IF lo = hi THEN (IF HrefAt(s, lo) THEN lo ELSE 0)
    ELSE LET l == FirstHref(s, lo, (lo + hi) \div 2) IN
         IF l # 0 THEN l ELSE FirstHref(s, ((lo + hi) \div 2) + 1, hi)

\* The group of the match at index i: from after href=" to the next double
\* quote.
HrefGroup(s, i) ==
    SubSeq(s, i + Len(HrefOpen), IndexOf(s, <<"\"">>, i + Len(HrefOpen)) - 1)

MatchAt(s, i) ==
    IF i = 0 THEN [found |-> FALSE, group |-> <<>>]
    ELSE [found |-> TRUE, group |-> HrefGroup(s, i)]

\* raw.match(/href="([^"]*)"/): [found, group], for the first match.
HrefMatch(s) == MatchAt(s, FirstHref(s, 1, Len(s)))

\* raw.replace(/\r?\n|\r/g, ""): every \r and every \n goes, alone or as a
\* pair.
RECURSIVE RemoveLineBreaksIn(_, _, _)
RemoveLineBreaksIn(s, lo, hi) ==
    IF lo > hi THEN <<>>
    ELSE IF lo = hi
    THEN (IF s[lo] = "\n" \/ s[lo] = "\r" THEN <<>> ELSE <<s[lo]>>)
    ELSE RemoveLineBreaksIn(s, lo, (lo + hi) \div 2)
         \o RemoveLineBreaksIn(s, ((lo + hi) \div 2) + 1, hi)

RemoveLineBreaks(s) == RemoveLineBreaksIn(s, 1, Len(s))

\* .replace(/\s+/g, " "): a run of white space leaves one space, where it
\* starts.
RECURSIVE CollapseIn(_, _, _)
CollapseIn(s, lo, hi) ==
    IF lo > hi THEN <<>>
    ELSE IF lo = hi
    THEN (IF s[lo] \notin WhiteSpace THEN <<s[lo]>>
          ELSE IF lo > 1 /\ s[lo - 1] \in WhiteSpace THEN <<>>
          ELSE <<" ">>)
    ELSE CollapseIn(s, lo, (lo + hi) \div 2)
         \o CollapseIn(s, ((lo + hi) \div 2) + 1, hi)

CollapseSpaces(s) == CollapseIn(s, 1, Len(s))

\* A faulty minimizer: the line breaks are left to the whitespace step.
CollapseOnly(raw) == CollapseSpaces(raw)

Minimize(raw) == CollapseSpaces(RemoveLineBreaks(raw))

\* encodeURIComponent(cleanSvg).replace(/'/g, "%27").replace(/"/g, "%22")
EncodeSvg(clean) ==
    ReplaceAll(ReplaceAll(encodeURIComponent(clean), "'", Chars("%27")),
               "\"", Chars("%22"))

DataUriOf(clean) == DataPrefix \o EncodeSvg(clean)

TagOf(dataUri) == TagHead \o dataUri \o TagTail

\* if (match) raw = match[1]
GroupOr(m, raw) == IF m.found THEN m.group ELSE raw

\* A faulty <link> step: the tag is never unwrapped.
KeepLink(raw) == raw

\* The text after the <link> step: the href's value when the trimmed text
\* starts with <link and the pattern matches, the trimmed text otherwise.
Unlink(raw) ==
    IF StartsWith(raw, LinkPrefix) THEN GroupOr(HrefMatch(raw), raw) ELSE raw

\* What processInput leaves behind, the textarea having held value:
\*   kind "empty": the outputs are cleared;
\*   kind "threw": decodeURIComponent threw before anything was written;
\*   kind "ok":    the outputs are written, and the textarea too (input) when
\*                 the text was a data URI.
EmptyResult(value) ==
    [kind |-> "empty", input |-> value, clean |-> <<>>, dataUri |-> <<>>,
     tag |-> <<>>]

ThrewResult(value) ==
    [kind |-> "threw", input |-> value, clean |-> <<>>, dataUri |-> <<>>,
     tag |-> <<>>]

OkResult(input, clean, dataUri) ==
    [kind |-> "ok", input |-> input, clean |-> clean, dataUri |-> dataUri,
     tag |-> TagOf(dataUri)]

\* processInput from cleanSvg on: the data URI and the tag.
AfterMinimize(input, clean) == OkResult(input, clean, DataUriOf(clean))

\* processInput from the text to minimize on.
AfterUnwrap(input, raw) == AfterMinimize(input, Minimize(raw))

\* The data URI branch, dec being what decodeURIComponent gave: the decoded
\* text goes into the textarea.
AfterDecode(value, dec) ==
    IF dec.ok THEN AfterUnwrap(dec.str, dec.str) ELSE ThrewResult(value)

\* processInput from the data URI test on.
AfterUnlink(value, raw) ==
    IF StartsWith(raw, DataPrefix)
    THEN AfterDecode(value,
                     decodeURIComponent(ReplaceFirst(raw, DataPrefix, <<>>)))
    ELSE AfterUnwrap(value, raw)

\* processInput from the trimmed text on.
AfterTrim(value, raw) ==
    IF raw = <<>> THEN EmptyResult(value) ELSE AfterUnlink(value, Unlink(raw))

processInput(value) == AfterTrim(value, Trim(value))

-----------------------------------------------------------------------------
(* JSON: the stored text is a sequence of tokens, a value is <<tag, payload>>*)

Tok(kind) == [k |-> kind, s |-> <<>>, n |-> 0]

StrTok(str) == [k |-> "str", s |-> str, n |-> 0]

NumTok(num) == [k |-> "num", s |-> <<>>, n |-> num]

Null == <<"null", 0>>

Undefined == <<"undefined", 0>>

Num(n) == <<"num", n>>

Str(s) == <<"str", s>>

Arr(elems) == <<"arr", elems>>

Obj(members) == <<"obj", members>>

IsArr(v) == v[1] = "arr"

\* JSON.stringify
RECURSIVE Stringify(_)
RECURSIVE StringifyElems(_, _)
RECURSIVE StringifyMembers(_, _)
Stringify(v) ==
    CASE v[1] = "num" -> <<NumTok(v[2])>>
      [] v[1] = "str" -> <<StrTok(v[2])>>
      [] v[1] = "arr" -> <<Tok("[")>> \o StringifyElems(v[2], 1) \o <<Tok("]")>>
      [] v[1] = "obj" -> <<Tok("{")>> \o StringifyMembers(v[2], 1) \o <<Tok("}")>>
      [] OTHER -> <<Tok("null")>>

StringifyElems(es, i) ==
    IF i > Len(es) THEN <<>>
    ELSE (IF i > 1 THEN <<Tok(",")>> ELSE <<>>)
         \o Stringify(es[i]) \o StringifyElems(es, i + 1)

StringifyMembers(ms, i) ==
    IF i > Len(ms) THEN <<>>
    ELSE (IF i > 1 THEN <<Tok(",")>> ELSE <<>>)
         \o <<StrTok(ms[i][1]), Tok(":")>> \o Stringify(ms[i][2])
         \o StringifyMembers(ms, i + 1)

ParseFail == [ok |-> FALSE, val |-> Null, next |-> 0]

KindAt(ts, i) == IF i <= Len(ts) THEN ts[i].k ELSE "end"

\* JSON.parse, by recursive descent: the value that starts at token i, and
\* the index after it.
RECURSIVE ParseValue(_, _)
RECURSIVE ParseElems(_, _, _)
RECURSIVE ParseMembers(_, _, _)
ParseValue(ts, i) ==
    CASE KindAt(ts, i) = "null" -> [ok |-> TRUE, val |-> Null, next |-> i + 1]
      [] KindAt(ts, i) = "num" ->
            [ok |-> TRUE, val |-> Num(ts[i].n), next |-> i + 1]
      [] KindAt(ts, i) = "str" ->
            [ok |-> TRUE, val |-> Str(ts[i].s), next |-> i + 1]
      [] KindAt(ts, i) = "[" ->
            IF KindAt(ts, i + 1) = "]"
            THEN [ok |-> TRUE, val |-> Arr(<<>>), next |-> i + 2]
            ELSE ParseElems(ts, i + 1, <<>>)
      [] KindAt(ts, i) = "{" ->
            IF KindAt(ts, i + 1) = "}"
            THEN [ok |-> TRUE, val |-> Obj(<<>>), next |-> i + 2]
            ELSE ParseMembers(ts, i + 1, <<>>)
      [] OTHER -> ParseFail

ParseElems(ts, i, acc) ==
    LET e == ParseValue(ts, i) IN
    IF ~e.ok THEN ParseFail
    ELSE IF KindAt(ts, e.next) = ","
    THEN ParseElems(ts, e.next + 1, Append(acc, e.val))
    ELSE IF KindAt(ts, e.next) = "]"
    THEN [ok |-> TRUE, val |-> Arr(Append(acc, e.val)), next |-> e.next + 1]
    ELSE ParseFail

ParseMembers(ts, i, acc) ==
    IF KindAt(ts, i) # "str" \/ KindAt(ts, i + 1) # ":" THEN ParseFail
    ELSE LET e == ParseValue(ts, i + 2) IN
         IF ~e.ok THEN ParseFail
         ELSE IF KindAt(ts, e.next) = ","
         THEN ParseMembers(ts, e.next + 1, Append(acc, <<ts[i].s, e.val>>))
         ELSE IF KindAt(ts, e.next) = "}"
         THEN [ok |-> TRUE, val |-> Obj(Append(acc, <<ts[i].s, e.val>>)),
               next |-> e.next + 1]
         ELSE ParseFail

\* JSON.parse(text): [ok, val]; ok is FALSE where it throws SyntaxError.
JSONparse(ts) ==
    LET r == ParseValue(ts, 1) IN
    IF r.ok /\ r.next = Len(ts) + 1
    THEN [ok |-> TRUE, val |-> r.val]
    ELSE [ok |-> FALSE, val |-> Null]

\* v.key for a parsed value: undefined where v is no object or has no such
\* member (the last one of that name, as JSON.parse keeps it).
RECURSIVE MemberFrom(_, _, _)
MemberFrom(ms, key, i) ==
    IF i < 1 THEN Undefined
    ELSE IF ms[i][1] = key THEN ms[i][2]
    ELSE MemberFrom(ms, key, i - 1)

Prop(v, key) ==
    IF v[1] = "obj" THEN MemberFrom(v[2], Chars(key), Len(v[2])) ELSE Undefined

-----------------------------------------------------------------------------
(* The history store                                                       *)

MaxItems == 50

Absent == [present |-> FALSE, text |-> <<>>]

Stored(text) == [present |-> TRUE, text |-> text]

\* A faulty read of the storage: the fallback text whatever is stored.
AlwaysFallback(st) == <<Tok("["), Tok("]")>>

\* localStorage.getItem(STORAGE_KEY) || "[]"
GetItemOr(st) ==
    IF st.present /\ st.text # <<>> THEN st.text ELSE <<Tok("["), Tok("]")>>

\* try { return JSON.parse(...) } catch { return [] }
getHistory(st) ==
    LET p == JSONparse(GetItemOr(st)) IN
    IF p.ok THEN p.val ELSE Arr(<<>>)

RECURSIVE Digits(_)
Digits(n) ==
    IF n < 10 THEN <<HexDigits[n + 1]>>
    ELSE Digits(n \div 10) \o <<HexDigits[(n % 10) + 1]>>

\* new Date().toLocaleString() at clock reading t
DateString(t) == <<"@">> \o Digits(t)

\* The HistoryItem saveHistory builds.
NewEntry(t, svg, code) ==
    Obj(<< <<Chars("id"), Num(t)>>,
           <<Chars("svg"), Str(svg)>>,
           <<Chars("code"), Str(code)>>,
           <<Chars("date"), Str(DateString(t))>> >>)

\* A faulty insertion: the entry goes to the end.
PushLast(es, e) == Append(es, e)

\* A faulty truncation: nothing is dropped.
KeepAll(es) == es

\* history.unshift(entry)
Unshift(es, e) == <<e>> \o es

\* if (history.length > 50) history.pop()
Truncate(es) ==
    IF Len(es) > MaxItems THEN SubSeq(es, 1, Len(es) - 1) ELSE es

\* renderHistory throws TypeError on this value: it has no forEach, or an
\* item of it has no string svg to take a substring of.
RenderRaises(h) ==
    CASE h[1] = "arr" -> \E i \in 1..Len(h[2]) : Prop(h[2][i], "svg")[1] # "str"
      [] h[1] = "str" -> h[2] # <<>>
      [] OTHER -> TRUE

\* history.length > 0 && history[0].svg throws TypeError
HeadRaises(h) ==
    \/ h[1] = "null"
    \/ h[1] = "arr" /\ h[2] # <<>> /\ h[2][1][1] = "null"

\* history.length > 0 && history[0].svg === currentSvg
SameAsHead(h, svg) ==
    /\ h[1] = "arr"
    /\ h[2] # <<>>
    /\ Prop(h[2][1], "svg")[1] = "str"
    /\ Prop(h[2][1], "svg")[2] = svg

\* Prevent duplicate consecutive saves: only part_001 has the check.
Suppresses(v, h, svg) == v = "part_001" /\ SameAsHead(h, svg)

\* localStorage.setItem(STORAGE_KEY, JSON.stringify(history)); renderHistory()
Written(st2) ==
    [rec |-> "stored",
     raised |-> IF RenderRaises(getHistory(st2)) THEN "TypeError" ELSE "none",
     storage |-> st2]

\* saveHistory from getHistory() on, h being what it returned.
SaveEntry(v, currentSvg, currentOutput, st, h, t) ==
    IF currentSvg = <<>>
    THEN [rec |-> "empty", raised |-> "none", storage |-> st]
    ELSE IF v = "part_001" /\ HeadRaises(h)
    THEN [rec |-> "failed", raised |-> "TypeError", storage |-> st]
    ELSE IF Suppresses(v, h, currentSvg)
    THEN [rec |-> "suppressed", raised |-> "none", storage |-> st]
    ELSE IF ~IsArr(h)
    THEN [rec |-> "failed", raised |-> "TypeError", storage |-> st]
    ELSE Written(Stored(Stringify(Arr(
             Truncate(Unshift(h[2], NewEntry(t, currentSvg, currentOutput)))))))

\* saveHistory with the textarea holding input and the output box output,
\* at clock reading t: [rec, raised, storage].
\*   rec "empty":      nothing to save;
\*   rec "suppressed": the head entry holds the same svg;
\*   rec "stored":     the entry was written;
\*   rec "failed":     a TypeError before anything was written.
saveHistory(v, input, output, st, t) ==
    SaveEntry(v, Trim(input), Trim(output), st, getHistory(st), t)

EntriesOf(h) == IF IsArr(h) THEN h[2] ELSE <<>>

\* The entries load() hands out of the storage st, when it hands out a
\* sequence.
HistoryIn(st) == EntriesOf(getHistory(st))

History == HistoryIn(storage)

\* history.find((x) => x.id === id): the index of the first such item, 0
\* when there is none.
RECURSIVE FindById(_, _, _)
FindById(es, id, i) ==
    IF i > Len(es) THEN 0
    ELSE IF Prop(es[i], "id") = id THEN i
    ELSE FindById(es, id, i + 1)

-----------------------------------------------------------------------------
(* The page: init() and the event handlers                                 *)

Variants == {"main", "part_001"}

DEFAULT_SVG_HREF(v) ==
    IF v = "main"
    THEN Chars("data:image/svg+xml,%3Csvg xmlns='http://www.w3.org/2000/svg' viewBox='0 0 100 100'%3E%3Crect width='100' height='100' rx='20' fill='%231f2937'/%3E%3Ctext x='50' y='50' font-size='50' fill='%23ffffff' text-anchor='middle' dy='.3em' font-family='Poppins, sans-serif' font-weight='bold'%3ERJ%3C/text%3E%3C/svg%3E")
    ELSE Chars("data:image/svg+xml,%3Csvg xmlns='http://www.w3.org/2000/svg' viewBox='0 0 100 100'%3E%3Crect width='100' height='100' rx='20' fill='%23000000'/%3E%3Ctext x='50' y='50' font-size='50' fill='%23ffffff' text-anchor='middle' dy='.3em' font-family='Poppins, sans-serif' font-weight='bold'%3ESG%3C/text%3E%3C/svg%3E")

\* The outputs processInput leaves, given what they were.
OutputAfter(r, old) == IF r.kind = "threw" THEN old ELSE r.tag

PreviewAfter(r, old) == IF r.kind = "threw" THEN old ELSE r.dataUri

CleanAfter(r, old) == IF r.kind = "ok" THEN r.clean ELSE old

ErrorOf(r) == IF r.kind = "threw" THEN "URIError" ELSE "none"

\* What processInput writes: the textarea, the output box, the preview.
Shown(r) ==
    /\ svgInput' = r.input
    /\ outputCode' = OutputAfter(r, outputCode)
    /\ previewSrc' = PreviewAfter(r, previewSrc)
    /\ cleanSvg' = CleanAfter(r, cleanSvg)

\* The text init() puts into an empty textarea.
DefaultSvg(v) ==
    decodeURIComponent(ReplaceFirst(DEFAULT_SVG_HREF(v), DataPrefix, <<>>)).str

InitDone(v, text0, st0, r, renderFails) ==
    /\ variant = v
    /\ storage = st0
    /\ svgInput = r.input
    /\ outputCode = OutputAfter(r, <<>>)
    /\ previewSrc = PreviewAfter(r, <<>>)
    /\ cleanSvg = CleanAfter(r, <<>>)
    /\ raised = IF r.kind = "threw" THEN "URIError"
                ELSE IF renderFails THEN "TypeError" ELSE "none"
    /\ listening = (r.kind # "threw" /\ ~renderFails)
    /\ op = "init"
    /\ arg = text0
    /\ rec = "none"
    /\ exported = <<>>
    /\ now = 0

\* init() with the textarea holding text0 and the storage holding st0:
\* processInput, renderHistory, setupListeners; a throw ends it there.
InitPage(v, text0, st0) ==
    InitDone(v, text0, st0,
             processInput(IF text0 = <<>> THEN DefaultSvg(v) ELSE text0),
             RenderRaises(getHistory(st0)))

InputDone(text, r) ==
    /\ Shown(r)
    /\ raised' = ErrorOf(r)
    /\ op' = "input"
    /\ arg' = text
    /\ rec' = "none"
    /\ exported' = <<>>
    /\ UNCHANGED <<variant, storage, listening>>

\* els.svgInput "input" listener: processInput on the text just typed.
InputHandler(text) == listening /\ InputDone(text, processInput(text))

PasteDone(text, r) ==
    /\ Shown(r)
    /\ raised' = "none"
    /\ op' = "paste"
    /\ arg' = text
    /\ rec' = "none"
    /\ exported' = <<>>
    /\ UNCHANGED <<variant, storage, listening>>

\* btnPaste: the clipboard text goes into the textarea, then processInput;
\* the handler's catch takes a throw.
PasteHandler(text) == listening /\ PasteDone(text, processInput(text))

GenerateDone(r, s) ==
    /\ Shown(r)
    /\ storage' = s.storage
    /\ rec' = s.rec
    /\ raised' = s.raised
    /\ op' = "generate"
    /\ arg' = svgInput
    /\ exported' = <<>>
    /\ UNCHANGED <<variant, listening>>

\* What a handler's saveHistory() call gives after processInput gave r; a
\* throw of processInput leaves it uncalled.
SaveAfter(r, error) ==
    IF r.kind = "threw"
    THEN [rec |-> "none", raised |-> error, storage |-> storage]
    ELSE saveHistory(variant, r.input, r.tag, storage, now)

GenerateRun(r) == GenerateDone(r, SaveAfter(r, "URIError"))

\* btnGenerate: processInput(); saveHistory();
GenerateHandler == listening /\ GenerateRun(processInput(svgInput))

\* String.prototype.toLowerCase on the modelled characters
Lower(c) ==
    IF c \in DOMAIN CodeTable /\ CharCode(c) >= 65 /\ CharCode(c) <= 90
    THEN CharOf(CharCode(c) + 32)
    ELSE c

ToLowerCase(s) == [i \in 1..Len(s) |-> Lower(s[i])]

\* fetchUrl's check that the response looks like SVG
LooksLikeSvg(v, text) ==
    IF v = "main"
    THEN IndexOf(text, Chars("<svg"), 1) # 0
    ELSE IndexOf(ToLowerCase(text), Chars("<svg"), 1) # 0

FetchDone(text, r, s) ==
    /\ IF LooksLikeSvg(variant, text)
       THEN /\ Shown(r)
            /\ storage' = IF variant = "part_001" THEN s.storage ELSE storage
            /\ rec' = IF variant = "part_001" THEN s.rec ELSE "none"
       ELSE /\ rec' = "none"
            /\ UNCHANGED <<svgInput, outputCode, previewSrc, cleanSvg, storage>>
    /\ raised' = "none"
    /\ op' = "fetch"
    /\ arg' = text
    /\ exported' = <<>>
    /\ UNCHANGED <<variant, listening>>

FetchRun(text, r) == FetchDone(text, r, SaveAfter(r, "none"))

\* btnFetch, the response text having arrived: every throw is caught and
\* alerted. part_001 saves after a successful fetch.
FetchHandler(text) == listening /\ FetchRun(text, processInput(text))

\* btnClear, confirmed: removeItem, renderHistory
ClearHandler ==
    /\ listening
    /\ storage' = Absent
    /\ op' = "clear"
    /\ arg' = <<>>
    /\ rec' = "none"
    /\ raised' = IF RenderRaises(getHistory(Absent)) THEN "TypeError" ELSE "none"
    /\ exported' = <<>>
    /\ UNCHANGED <<variant, svgInput, outputCode, previewSrc, cleanSvg, listening>>

\* btnExport: the Blob holds getItem(STORAGE_KEY) || "[]"
ExportHandler ==
    /\ listening
    /\ exported' = GetItemOr(storage)
    /\ op' = "export"
    /\ arg' = <<>>
    /\ rec' = "none"
    /\ raised' = "none"
    /\ UNCHANGED <<variant, svgInput, outputCode, previewSrc, cleanSvg, storage,
                   listening>>

\* The item a click on the i-th rendered item loads: main.ts loads the item
\* itself, part_001 dispatches its id and loads what find() returns.
LoadedIndex(v, es, i) ==
    IF v = "main" THEN i ELSE FindById(es, Prop(es[i], "id"), 1)

LoadDone(text, r) ==
    /\ Shown(r)
    /\ raised' = ErrorOf(r)
    /\ op' = "load"
    /\ arg' = text
    /\ rec' = "none"
    /\ exported' = <<>>
    /\ UNCHANGED <<variant, storage, listening>>

LoadText(text) == LoadDone(text, processInput(text))

LoadItem(es, j) == j # 0 /\ LoadText(Prop(es[j], "svg")[2])

LoadFrom(es, i) == i \in 1..Len(es) /\ LoadItem(es, LoadedIndex(variant, es, i))

\* The load click on the i-th item: its svg goes into the textarea, then
\* processInput. Items are on the page only when init() ran to its end.
LoadHandler(i) == listening /\ LoadFrom(History, i)

\* The clock advances by one reading; no handler runs.
TickStep ==
    /\ now' = now + 1
    /\ op' = "tick"
    /\ arg' = <<>>
    /\ rec' = "none"
    /\ raised' = "none"
    /\ exported' = <<>>
    /\ UNCHANGED <<variant, svgInput, outputCode, previewSrc, cleanSvg, storage,
                   listening>>

-----------------------------------------------------------------------------
(* Spec: the page under a user who types, pastes, fetches, generates,      *)
(* loads, exports and clears, with a clock that never runs backwards       *)

\* The clock readings a run goes through: 0..MaxClock
MaxClock == 1

\* The handlers that save are tried only while the history holds fewer
\* entries than this.
MaxSaved == 2

SvgA == Chars("<svg>")

SvgB == Chars("<svg/>\n")

\* A hand-written data URI with a bare percent sign.
BadUri == DataPrefix \o Chars("<svg width='100%'/>")

\* What the user types or pastes.
Texts == {SvgB, BadUri, <<" ">>}

\* What a fetch brings back.
Responses == {SvgA, Chars("<SVG>"), Chars("404")}

\* What the storage may hold when the page opens: nothing, the empty text,
\* text that is not JSON, and JSON that is not an array of entries.
InitialStorages ==
    { Absent,
      Stored(<<>>),
      Stored(<<Tok("bad")>>),
      Stored(<<Tok("{"), Tok("}")>>),
      Stored(<<Tok("["), NumTok(1), Tok("]")>>) }

\* What the textarea may hold when the page opens (<<>>: nothing).
InitialTexts == {<<>>}

Init ==
    \E v \in Variants, text0 \in InitialTexts, st0 \in InitialStorages :
        InitPage(v, text0, st0)

Room == Len(History) < MaxSaved

Input == (\E text \in Texts : InputHandler(text)) /\ now' = now

Paste == (\E text \in Texts : PasteHandler(text)) /\ now' = now

Generate == Room /\ GenerateHandler /\ now' = now

Fetch == Room /\ (\E text \in Responses : FetchHandler(text)) /\ now' = now

Clear == ClearHandler /\ now' = now

Export == ExportHandler /\ now' = now

Load == (\E i \in 1..Len(History) : LoadHandler(i)) /\ now' = now

Tick == now < MaxClock /\ TickStep

Next == Input \/ Paste \/ Generate \/ Fetch \/ Clear \/ Export \/ Load \/ Tick

Spec == Init /\ [][Next]_vars

-----------------------------------------------------------------------------
(* SpecEnc: the encoder. The page has just opened; the user types one text, *)
(* and may then put what the page shows for it back into the textarea      *)

\* The longest body typed.
MaxLen == 3

\* A character that is a hex digit, the whitespace the minimizer treats
\* differently, the two quotes and the percent sign.
Alphabet == {"2", " ", "\n", "\t", "'", "\"", "%"}

Bodies == UNION {[1..n -> Alphabet] : n \in 0..MaxLen}

\* <link href="x" />
LinkDouble(x) == Chars("<link href=\"") \o x \o Chars("\" />")

\* <link href='x' />
LinkSingle(x) == Chars("<link href='") \o x \o Chars("' />")

Examples ==
    { Chars("<svg width=\"1\" height=\"1\"></svg>"),
      Chars("<svg>\r\n</svg>"),
      Chars("<svg>\r</svg>"),
      Chars("<link rel=\"icon\">"),
      Chars(" data:image/svg+xml,2"),
      <<"<", EAcute, ">">>,
      DataPrefix \o Chars("%C3%A9%0A%20") }

\* What is typed: a body as it stands, after the data URI prefix, and as
\* the href of a <link> tag in double and in single quotes.
EncInputs ==
    Bodies
    \cup {DataPrefix \o b : b \in Bodies}
    \cup {LinkDouble(b) : b \in Bodies}
    \cup {LinkSingle(b) : b \in Bodies}
    \cup Examples

InitEnc == \E v \in Variants : InitPage(v, <<>>, Absent)

Type == op = "init" /\ (\E text \in EncInputs : InputHandler(text)) /\ now' = now

\* The data URI or the tag on display goes back into the textarea.
Reenter ==
    /\ op = "input"
    /\ raised = "none"
    /\ outputCode # <<>>
    /\ \E text \in {previewSrc, outputCode} : InputHandler(text)
    /\ now' = now

NextEnc == Type \/ Reenter

SpecEnc == InitEnc /\ [][NextEnc]_vars

-----------------------------------------------------------------------------
(* SpecFill: the history filled to its capacity. Every text is fresh, one  *)
(* per clock reading, and is typed or fetched once the text before it is   *)
(* saved; the clock advances with every save                               *)

\* The clock readings, hence the fresh texts, of a run: 0..MaxSvgs - 1
MaxSvgs == 51

\* The user clears the history up to this clock reading, and when it is full.
MaxEarly == 1

\* The text at the head is recorded again only while the history holds
\* fewer entries than this.
MaxRepeats == 2

Svg(k) == Chars("<svg>") \o Digits(k)

InitFill ==
    \E v \in Variants, st0 \in {Absent, Stored(<<>>)} : InitPage(v, <<>>, st0)

\* The text in the textarea is the one at the head of the entries es.
SavedIn(es) == es # <<>> /\ Prop(es[1], "svg") = Str(Trim(svgInput))

FreshAfter(es) == now < MaxSvgs /\ (es = <<>> \/ SavedIn(es))

\* The clock has advanced when a save ends.
Advance == now' = IF rec' = "stored" THEN now + 1 ELSE now

FillType == FreshAfter(History) /\ InputHandler(Svg(now)) /\ now' = now

FillFetch == FreshAfter(History) /\ FetchHandler(Svg(now)) /\ Advance

Recordable(es) == now < MaxSvgs /\ (Len(es) < MaxRepeats \/ ~SavedIn(es))

FillRecord == Recordable(History) /\ GenerateHandler /\ Advance

FillClear ==
    /\ now <= MaxEarly \/ Len(History) = MaxItems
    /\ ClearHandler
    /\ now' = now

NextFill == FillType \/ FillFetch \/ FillRecord \/ FillClear

SpecFill == InitFill /\ [][NextFill]_vars

-----------------------------------------------------------------------------
(* The history: C1, C2, C3, C10                                            *)

SvgOf(e) == Prop(e, "svg")

IdOf(e) == Prop(e, "id")[2]

\* C1: from absent or empty storage, whatever is recorded (Generate, the
\* save after a fetch) and cleared, the persisted history is an array of at
\* most 50 entries.
C1_HistoryAtMostMaxItems ==
    IsArr(getHistory(storage)) /\ Len(History) <= MaxItems

\* C1, reached: the save after a fetch was the 51st save at least and the
\* history holds 50 entries.
C1_FullAfterFetch ==
    /\ op = "fetch"
    /\ rec = "stored"
    /\ now = MaxItems + 1
    /\ Len(History) = MaxItems

\* The entry a save builds from what the page shows after the step.
Recorded == NewEntry(now, Trim(svgInput'), Trim(outputCode'))

\* C2: every save that is not rejected, on a history H of at most 50
\* entries, leaves the new entry at index 0 followed by the first
\* min(|H|, 49) entries of H in their order.
C2_RecordPrependsAndKeepsFirst49 ==
    [][(rec' = "stored" /\ Len(History) <= MaxItems)
       => HistoryIn(storage') =
              <<Recorded>> \o SubSeq(History, 1, Min(Len(History), MaxItems - 1))]_vars

\* C2, reached: 51 distinct texts were recorded from an empty history, 50
\* entries are left, the 51st at index 0 and the 1st gone.
C2_FiftyFirstEvictsFirst ==
    /\ rec = "stored"
    /\ now = MaxItems + 1
    /\ Len(History) = MaxItems
    /\ \A i \in 1..MaxItems : SvgOf(History[i]) = Str(Svg(MaxItems + 1 - i))

\* C3: a save called with the svg of the head entry, verbatim, leaves the
\* persisted history as it was.
C3_SameSvgLeavesHistoryUnchanged ==
    [][(rec' \in {"stored", "suppressed"}
        /\ SameAsHead(getHistory(storage), Trim(svgInput')))
       => storage' = storage]_vars

\* C3, reached: a save was called with the svg of the head entry and was
\* suppressed.
C3_SuppressedAtHead ==
    rec = "suppressed" /\ SameAsHead(getHistory(storage), Trim(svgInput))

\* C10: in every persisted history no two entries share an id, and the ids
\* never increase from index 0 to the tail, the clock never running
\* backwards.
C10_IdsUniqueAndNonIncreasing ==
    \A i, j \in 1..Len(History) :
        i < j => IdOf(History[i]) # IdOf(History[j])
                 /\ IdOf(History[i]) >= IdOf(History[j])

\* C10, reached: two entries were saved at two clock readings.
C10_TwoEntriesTwoReadings ==
    /\ Len(History) = 2
    /\ IdOf(History[1]) > IdOf(History[2])

-----------------------------------------------------------------------------
(* The encoder: C4, C5, C6, C7                                             *)

\* No line break or tab, and no two spaces in a row.
Canonical(c) ==
    /\ \A i \in 1..Len(c) : c[i] \notin {"\n", "\r", "\t"}
    /\ \A i \in 1..(Len(c) - 1) : ~(c[i] = " " /\ c[i + 1] = " ")

\* C4: the data URI the page builds from a canonical text c, put back into
\* the textarea, gives c as canonical source again.
C4_RoundTrip ==
    [][(/\ op = "input"
        /\ raised = "none"
        /\ Canonical(cleanSvg)
        /\ previewSrc = DataUriOf(cleanSvg)
        /\ op' = "input"
        /\ arg' = previewSrc)
       => (raised' = "none" /\ cleanSvg' = cleanSvg)]_vars

\* C4, reached: the data URI built from a percent sign, a space and an
\* apostrophe was put back and decoded.
C4_EscapesDecoded ==
    /\ op = "input"
    /\ arg = DataPrefix \o Chars("%25%20%27")
    /\ cleanSvg = <<"%", " ", "'">>

\* s without the characters of cs
Without(s, cs) == SelectSeq(s, LAMBDA c : c \notin cs)

\* The indices of s that open a run of whitespace or hold another character.
RunHeads(s) ==
    SelectSeq([i \in 1..Len(s) |-> i],
              LAMBDA i : s[i] \notin WhiteSpace \/ i = 1 \/ s[i - 1] \notin WhiteSpace)

SpacedAt(s, heads) ==
    [k \in 1..Len(heads) |-> IF s[heads[k]] \in WhiteSpace THEN " " ELSE s[heads[k]]]

\* s with every run of whitespace made one space
OneSpacePerRun(s) == SpacedAt(s, RunHeads(s))

\* The text is neither blank, nor a <link> tag, nor a data URI.
Plain(s) ==
    /\ s # <<>>
    /\ ~StartsWith(s, LinkPrefix)
    /\ ~StartsWith(s, DataPrefix)

\* C5, as stated: for a text that is not blank and starts with neither
\* prefix, the canonical source is the trimmed text with every run of
\* whitespace, line breaks included, made one space.
C5_EveryRunOneSpace ==
    (op = "input" /\ Trim(arg) # <<>> /\ Plain(arg))
    => cleanSvg = OneSpacePerRun(Trim(arg))

\* C5, amended: for a text whose trimmed form is not empty and starts with
\* neither prefix, the canonical source is the trimmed text with its line
\* breaks deleted and every run of the whitespace left made one space.
C5_BreaksDeletedThenOneSpace ==
    (op = "input" /\ Plain(Trim(arg)))
    => cleanSvg = OneSpacePerRun(Without(Trim(arg), {"\n", "\r"}))

\* C5, reached: the text with a Windows line break was typed; the break is
\* gone, no space in its place.
C5_WindowsBreakDeleted ==
    /\ op = "input"
    /\ arg = Chars("<svg>\r\n</svg>")
    /\ cleanSvg = Chars("<svg></svg>")

\* href= and the quote q at index i of s, with a later q to close the value
OpensAt(s, i, q) ==
    /\ i + 5 <= Len(s)
    /\ SubSeq(s, i, i + 5) = <<"h", "r", "e", "f", "=", q>>
    /\ \E j \in (i + 6)..Len(s) : s[j] = q

HrefOpens(s, qs) == {i \in 1..Len(s) : \E q \in qs : OpensAt(s, i, q)}

Least(S) == CHOOSE i \in S : \A j \in S : i <= j

\* The value that opens at index i: up to the next quote of its kind.
ValueAt(s, i) ==
    SubSeq(s, i + 6, Least({j \in (i + 6)..Len(s) : s[j] = s[i + 5]}) - 1)

\* The value of the first href attribute of s delimited by a quote of qs
HrefValue(s, qs) == ValueAt(s, Least(HrefOpens(s, qs)))

\* The page shows what processInput yields for another text.
ShowsResult(r) ==
    IF r.kind = "threw" THEN raised = "URIError"
    ELSE /\ raised = "none"
         /\ cleanSvg = r.clean
         /\ previewSrc = r.dataUri
         /\ outputCode = r.tag

LinkWithHref(s, qs) == StartsWith(s, LinkPrefix) /\ HrefOpens(s, qs) # {}

\* Neither empty nor with whitespace at either end.
Tidy(x) == x # <<>> /\ Trim(x) = x

\* C6, as stated: a text that starts with <link and holds an href value X in
\* double or in single quotes gives the canonical source, data URI and tag
\* of X.
C6_HrefInEitherQuotes ==
    (op = "input" /\ LinkWithHref(Trim(arg), {"\"", "'"}))
    => ShowsResult(processInput(HrefValue(Trim(arg), {"\"", "'"})))

\* C6, amended: a text that starts with <link and holds an href value X in
\* double quotes, X not empty and without whitespace at its ends, gives the
\* canonical source, data URI and tag of X.
C6_HrefInDoubleQuotes ==
    (op = "input" /\ LinkWithHref(Trim(arg), {"\""})
     /\ Tidy(HrefValue(Trim(arg), {"\""})))
    => ShowsResult(processInput(HrefValue(Trim(arg), {"\""})))

\* C6, reached: a <link> tag was typed whose href holds a quote, a line
\* break and a percent sign.
C6_LinkUnwrapped ==
    /\ op = "input"
    /\ arg = LinkDouble(<<"'", "\n", "%">>)
    /\ cleanSvg = <<"'", "%">>

\* C7: for every text not empty after trimming, the tag is the template
\* around the data URI, the data URI is the prefix and the encoded
\* canonical source, and it holds neither an apostrophe nor a double quote.
C7_TagIsTemplateAroundDataUri ==
    (op = "input" /\ Trim(arg) # <<>>)
    => /\ raised = "none"
       /\ outputCode = TagHead \o previewSrc \o TagTail
       /\ previewSrc = DataPrefix \o EncodeSvg(cleanSvg)
       /\ \A i \in 1..Len(previewSrc) : previewSrc[i] \notin {"'", "\""}

\* C7, reached: a text with both quotes was typed and its tag is shown.
C7_QuotesEscaped ==
    /\ op = "input"
    /\ arg = <<"'", "\"">>
    /\ raised = "none"
    /\ previewSrc = DataPrefix \o Chars("%27%22")

-----------------------------------------------------------------------------
(* The storage: C8, C9                                                     *)

\* C8: whatever is persisted, load() yields a sequence, the empty one when
\* the text is absent, empty, not JSON or not an array of entries, and
\* nothing that runs after it raises.
C8_LoadYieldsSequence ==
    /\ IsArr(getHistory(storage))
    /\ RenderRaises(getHistory(storage)) => getHistory(storage) = Arr(<<>>)
    /\ raised # "TypeError"

\* C8, reached: the storage holds text that is not JSON and load() yields
\* the empty sequence.
C8_CorruptReadsEmpty ==
    /\ storage = Stored(<<Tok("bad")>>)
    /\ getHistory(storage) = Arr(<<>>)
    /\ listening

\* Export gave text that parses to what load() yields.
ExportParsesToLoad ==
    /\ JSONparse(exported).ok
    /\ JSONparse(exported).val = getHistory(storage)

\* C9, as stated: in every state of the storage the export, parsed, is what
\* load() yields, and is the persisted text as it stands when something is
\* persisted.
C9_ExportIsLoad ==
    op = "export"
    => /\ ExportParsesToLoad
       /\ storage.present => exported = storage.text

\* C9, amended: when the persisted text is absent, empty or JSON, the
\* export, parsed, is what load() yields; it is the persisted text as it
\* stands when that text is not empty.
C9_ExportIsLoadOfJson ==
    op = "export"
    => /\ JSONparse(GetItemOr(storage)).ok => ExportParsesToLoad
       /\ (storage.present /\ storage.text # <<>>) => exported = storage.text

\* C9, reached: a history of two entries was exported.
C9_ExportedTwoEntries ==
    /\ op = "export"
    /\ Len(History) = 2
    /\ exported = storage.text

-----------------------------------------------------------------------------
(* SpecSave: the user types or fetches an SVG, bare or wrapped in a data   *)
(* URI or a <link> tag, saves what the page holds and loads entries back   *)

SvgC == Chars("<svg/>")

\* The SVG as it stands, as a data URI (also with a space before the SVG and
\* with the prefix twice), and as the tag of such a data URI.
SaveTexts ==
    { SvgC,
      DataUriOf(SvgC),
      DataPrefix \o Chars("%20<svg/>"),
      DataPrefix \o DataPrefix \o Chars("%20<svg/>"),
      TagOf(DataUriOf(SvgC)),
      TagOf(DataPrefix \o Chars("%20<svg/>")),
      LinkSingle(SvgC) }

SaveInput == (\E text \in SaveTexts : InputHandler(text)) /\ now' = now

SaveFetch == Room /\ (\E text \in SaveTexts : FetchHandler(text)) /\ now' = now

NextSave == SaveInput \/ SaveFetch \/ Generate \/ Load \/ Clear

SpecSave == InitEnc /\ [][NextSave]_vars

CodeOf(e) == Prop(e, "code")

\* Loading the entry e and running the encoder gives the tag stored with it.
Reproduces(e) ==
    /\ SvgOf(e)[1] = "str"
    /\ CodeOf(e) = Str(processInput(SvgOf(e)[2]).tag)

\* C11: every entry recorded by Generate or by the save after a fetch holds
\* the tag the encoder yields for its svg, also when the text that was
\* encoded was a data URI or a <link> tag the encoder unwrapped.
C11_EntryReproducesItsTag ==
    \A i \in 1..Len(History) : Reproduces(History[i])

\* C11, reached: an entry was loaded back and the page shows the tag stored
\* with it.
C11_LoadedEntryShowsItsTag ==
    /\ op = "load"
    /\ Len(History) = 1
    /\ SvgOf(History[1]) = Str(arg)
    /\ CodeOf(History[1]) = Str(outputCode)

=============================================================================
